---------------------------- MODULE Spec2Model ----------------------------
(***************************************************************************)
(* Song similarity finder: feature extraction, database build, similarity  *)
(* ranking (src/src/song_similarity_finder.py) and the two front ends, the *)
(* command line (main of song_similarity_finder.py) and the interactive    *)
(* form (src/app.py).                                                      *)
(*                                                                         *)
(* A file name is a pair <<stem, extension>>.  The audio content of a file *)
(* is a number: 0 is content librosa cannot decode, t >= 1 is track t.     *)
(* A similarity score is kept as the exact fraction sgn(d)*d^2 / (|q|^2 *  *)
(* |s|^2), d the dot product: a strictly increasing function of the cosine *)
(* d / (|q|*|s|), so order and ties of scores are those of the cosines.    *)
(***************************************************************************)
EXTENDS Integers, Sequences, FiniteSets, TLC

VARIABLES
    folder,     \* the song folder: [exists, files], files: name -> content
    dbFile,     \* the file at the database path: [exists, db, written]
    last,       \* what the most recent operation did and gave its caller
    conc        \* the positions of a build and a query that run concurrently

vars == <<folder, dbFile, last, conc>>

---------------------------------------------------------------------------
(* Bounds of the model *)

NumTracks == 2      \* distinct decodable audio contents a user has
RankTracks == 3     \* distinct decodable audio contents in a ranked database
MaxTopN == 2        \* largest top_n a front end is asked for
NMfcc == 1          \* modelled length of the mfccs vector
NChroma == 1        \* modelled length of the chroma vector
NContrast == 1      \* modelled length of the spectral_contrast vector

Names == {<<"a", ".wav">>, <<"b", ".mp3">>, <<"n", ".txt">>}
RankNames == {<<"a", ".wav">>, <<"b", ".mp3">>, <<"c", ".wav">>}
QueryName == <<"q", ".wav">>
FileNames == Names \cup RankNames \cup {QueryName}
Contents == 0..NumTracks
Absent == 0 - 1
NoName == <<"", "">>

---------------------------------------------------------------------------
(* Helpers *)

Min(a, b) == IF a <= b THEN a ELSE b
Max(a, b) == IF a >= b THEN a ELSE b
Abs(x) == IF x < 0 THEN 0 - x ELSE x
Range(s) == {s[i] : i \in 1..Len(s)}

RECURSIVE Gcd(_, _)
Gcd(a, b) == IF b = 0 THEN a ELSE Gcd(b, a % b)

\* all orders in which a finite set can be enumerated
RECURSIVE Perms(_)
Perms(S) ==
    IF S = {} THEN {<<>>}
    ELSE UNION {{<<x>> \o p : p \in Perms(S \ {x})} : x \in S}

RECURSIVE Dot(_, _, _)
Dot(a, b, i) == IF i > Len(a) THEN 0 ELSE a[i] * b[i] + Dot(a, b, i + 1)

---------------------------------------------------------------------------
(* Output lines and results *)

Line(kind, song, sim) == [kind |-> kind, song |-> song, sim |-> sim]
Msg(kind) == Line(kind, NoName, 0)

NoFile == [exists |-> FALSE, db |-> <<>>, written |-> 0]
\* a pickle of database db whose last part never reached the file
UnflushedFile(db) == [exists |-> TRUE, db |-> db, written |-> Len(db)]

\* a completely written pickle of database db: one unit of header, one per entry
FullFile(db) == [exists |-> TRUE, db |-> db, written |-> Len(db) + 1]
\* the file right after open(path, 'wb'): it exists and holds no byte
TruncatedFile == [exists |-> TRUE, db |-> <<>>, written |-> 0]
Loadable(file) == file.exists /\ file.written = Len(file.db) + 1

Keys(db) == {db[i][1] : i \in 1..Len(db)}
\* the database as the mapping it is (dict equality ignores order)
AsMapping(db) ==
    [n \in Keys(db) |-> db[CHOOSE i \in 1..Len(db) : db[i][1] = n][2]]

---------------------------------------------------------------------------
(* extract_features *)

TrackBase(t) == (t \div 2) + 1
TrackScale(t) == 1 + (t % 2)

\* The features librosa computes for track t.  Tracks 2k and 2k+1 hold the
\* same music at two volumes: their vectors differ by the factor 2.
TrackFeatures(t) ==
    LET b == TrackBase(t)
        s == TrackScale(t)
    IN  [ok |-> TRUE,
         mfccs |-> [i \in 1..NMfcc |-> s * (b + i - 1)],
         chroma |-> [i \in 1..NChroma |-> s * i],
         tempo |-> s * ((2 * b) % 3),
         spectral_contrast |-> [i \in 1..NContrast |-> s * (b - 1) * i]]

NoFeatures ==
    [ok |-> FALSE, mfccs |-> <<>>, chroma |-> <<>>, tempo |-> 0,
     spectral_contrast |-> <<>>]

\* extract_features(os.path.join(folder, name)): None when the load or a
\* feature computation raises
ExtractFeatures(fold, name) ==
    IF fold.exists /\ name \in DOMAIN fold.files /\ fold.files[name] >= 1
    THEN TrackFeatures(fold.files[name])
    ELSE NoFeatures

---------------------------------------------------------------------------
(* find_similar_songs: vectors, cosine similarity, ranking *)

\* np.concatenate((mfccs, chroma, [tempo], spectral_contrast))
FeatureVector(f) == f.mfccs \o f.chroma \o <<f.tempo>> \o f.spectral_contrast

\* sklearn's cosine_similarity on two row vectors.  A vector of norm 0 is
\* left as it is by the normalisation, so its score is 0.
CosineSimilarity(a, b) ==
    LET d == Dot(a, b, 1)
        na == Dot(a, a, 1)
        nb == Dot(b, b, 1)
    IN  IF na = 0 \/ nb = 0 \/ d = 0 THEN <<0, 1>>
        ELSE LET num == d * d
                 den == na * nb
                 g == Gcd(num, den)
             IN  <<(IF d < 0 THEN 0 - 1 ELSE 1) * (num \div g), den \div g>>

ScoreLess(x, y) == x[1] * y[2] < y[1] * x[2]

\* the largest k in lo..hi with (2k-1)^2 * den <= 40000 * n
RECURSIVE NearestHundredth(_, _, _, _)
NearestHundredth(lo, hi, n, den) ==
    IF lo = hi THEN lo
    ELSE LET mid == (lo + hi + 1) \div 2
         IN  IF (2 * mid - 1) * (2 * mid - 1) * den <= 40000 * n
             THEN NearestHundredth(mid, hi, n, den)
             ELSE NearestHundredth(lo, mid - 1, n, den)

\* f"{similarity:.2f}": the score in hundredths, rounded to the nearest
Hundredths(x) ==
    LET k == NearestHundredth(0, 100, Abs(x[1]), x[2])
    IN  IF x[1] < 0 THEN 0 - k ELSE k

\* an insertion that puts the pair in front of the pairs of equal score
InsertBeforeTies(sorted, pair) ==
    LET before == {i \in 1..Len(sorted) : ScoreLess(pair[2], sorted[i][2])}
        k == Cardinality(before)
    IN  SubSeq(sorted, 1, k) \o <<pair>> \o SubSeq(sorted, k + 1, Len(sorted))

\* list.sort(key=score, reverse=True) as an insertion: the pair goes behind
\* every pair whose score is not lower, so equal scores keep their order
InsertDescending(sorted, pair) ==
    LET before == {i \in 1..Len(sorted) : ~ScoreLess(sorted[i][2], pair[2])}
        k == Cardinality(before)
    IN  SubSeq(sorted, 1, k) \o <<pair>> \o SubSeq(sorted, k + 1, Len(sorted))

RECURSIVE SortDescending(_)
SortDescending(pairs) ==
    IF pairs = <<>> THEN <<>>
    ELSE InsertDescending(SortDescending(SubSeq(pairs, 1, Len(pairs) - 1)),
                          pairs[Len(pairs)])

\* s[:n-1]
SliceToShort(s, n) == SubSeq(s, 1, Min(n, Len(s)) - 1)

\* Python's s[:n]
SliceTo(s, n) ==
    IF n >= 0 THEN SubSeq(s, 1, Min(n, Len(s)))
    ELSE SubSeq(s, 1, Max(Len(s) + n, 0))

\* the loop over database.items(): one (song, similarity) pair per entry
Similarities(qv, db) ==
    [i \in 1..Len(db) |->
        <<db[i][1], CosineSimilarity(qv, FeatureVector(db[i][2]))>>]

\* What an operation gives back: the exception it raised ("none" when it
\* returned), the list it returned, the file at the database path when it
\* ended, the paths it passed to extract_features, the songs it computed a
\* similarity for, and the lines it wrote.
Result(raised, returned, file, calls, compared, output) ==
    [raised |-> raised, returned |-> returned, file |-> file,
     extractCalls |-> calls, compared |-> compared, output |-> output]

\* find_similar_songs with the query song extracted before the database is
\* opened
FindSimilarExtractFirst(fold, file, query, top_n) ==
    LET qf == ExtractFeatures(fold, query)
    IN  IF ~qf.ok THEN
            Result("none", <<>>, file, <<query>>, <<>>,
                   <<Line("Error extracting features", query, 0),
                     Msg("Error: Could not extract features from the query song.")>>)
        ELSE IF ~file.exists THEN
            Result("FileNotFoundError", <<>>, file, <<query>>, <<>>, <<>>)
        ELSE IF ~Loadable(file) THEN
            Result("UnpicklingError", <<>>, file, <<query>>, <<>>, <<>>)
        ELSE
            LET sims == Similarities(FeatureVector(qf), file.db)
            IN  Result("none", SliceTo(SortDescending(sims), top_n), file,
                       <<query>>, [i \in 1..Len(sims) |-> sims[i][1]], <<>>)

\* find_similar_songs(query_path, database_path, top_n): open raises
\* FileNotFoundError on a missing file and pickle.load raises on a file that
\* is no complete pickle (EOFError, UnpicklingError: "UnpicklingError"
\* here), before anything else is done
FindSimilarSongs(fold, file, query, top_n) ==
    IF ~file.exists THEN
        Result("FileNotFoundError", <<>>, file, <<>>, <<>>, <<>>)
    ELSE IF ~Loadable(file) THEN
        Result("UnpicklingError", <<>>, file, <<>>, <<>>, <<>>)
    ELSE
        LET qf == ExtractFeatures(fold, query)
        IN  IF ~qf.ok THEN
                Result("none", <<>>, file, <<query>>, <<>>,
                       <<Line("Error extracting features", query, 0),
                         Msg("Error: Could not extract features from the query song.")>>)
            ELSE
                LET sims == Similarities(FeatureVector(qf), file.db)
                IN  Result("none", SliceTo(SortDescending(sims), top_n), file,
                           <<query>>, [i \in 1..Len(sims) |-> sims[i][1]], <<>>)

---------------------------------------------------------------------------
(* build_song_database *)

AudioSuffixes == {".mp3", ".wav"}

\* a test that lets every extension pass
EndsWithAnything(name, suffixes) == name[2] # ""

\* file_name.endswith(suffixes)
EndsWith(name, suffixes) == name[2] \in suffixes

\* database[file_name] = features
DictSet(db, name, f) ==
    IF name \in Keys(db)
    THEN [i \in 1..Len(db) |-> IF db[i][1] = name THEN <<name, f>> ELSE db[i]]
    ELSE Append(db, <<name, f>>)

\* One pass of the for loop over os.listdir(song_folder), listing in the
\* order `order`; st holds the database, the extractor calls and the output.
RECURSIVE BuildLoop(_, _, _, _)
BuildLoop(fold, order, i, st) ==
    IF i > Len(order) THEN st
    ELSE
        LET name == order[i]
            f == ExtractFeatures(fold, name)
        IN  IF EndsWith(name, AudioSuffixes) THEN
                BuildLoop(fold, order, i + 1,
                    [db |-> IF f.ok THEN DictSet(st.db, name, f) ELSE st.db,
                     calls |-> Append(st.calls, name),
                     output |-> st.output \o <<Line("Processing", name, 0)>>
                        \o (IF f.ok THEN <<>>
                            ELSE <<Line("Error extracting features", name, 0)>>)])
            ELSE BuildLoop(fold, order, i + 1, st)

BuildStart == [db |-> <<>>, calls |-> <<>>, output |-> <<>>]

\* a build that starts from the database the file holds
BuildSongDatabaseMerging(fold, order, file) ==
    IF ~fold.exists THEN
        Result("FileNotFoundError", <<>>, file, <<>>, <<>>, <<>>)
    ELSE
        LET st == BuildLoop(fold, order, 1,
                      [BuildStart EXCEPT
                          !.db = IF Loadable(file) THEN file.db ELSE <<>>])
        IN  Result("none", <<>>, FullFile(st.db), st.calls, <<>>,
                   st.output \o <<Msg("Database built successfully")>>)

\* a build that opens the output file before it lists the folder
BuildSongDatabaseOpensFirst(fold, order, file) ==
    IF ~fold.exists THEN
        Result("FileNotFoundError", <<>>, TruncatedFile, <<>>, <<>>, <<>>)
    ELSE
        LET st == BuildLoop(fold, order, 1, BuildStart)
        IN  Result("none", <<>>, FullFile(st.db), st.calls, <<>>,
                   st.output \o <<Msg("Database built successfully")>>)

\* build_song_database(song_folder, database_path) with the file at
\* database_path holding `file` before; os.listdir raises on a missing folder
BuildSongDatabase(fold, order, file) ==
    IF ~fold.exists THEN
        Result("FileNotFoundError", <<>>, file, <<>>, <<>>, <<>>)
    ELSE
        LET st == BuildLoop(fold, order, 1, BuildStart)
        IN  Result("none", <<>>, FullFile(st.db), st.calls, <<>>,
                   st.output \o <<Msg("Database built successfully")>>)

---------------------------------------------------------------------------
(* Front ends.  An argument that is not given is NoName; the song folder   *)
(* has one path, so a folder argument is given or not.                     *)

\* main() of song_similarity_finder.py, --mode build
CliBuild(given, fold, order, file) ==
    IF ~given THEN
        Result("none", <<>>, file, <<>>, <<>>,
               <<Msg("Error: --song_folder is required in build mode.")>>)
    ELSE BuildSongDatabase(fold, order, file)

\* main() of song_similarity_finder.py, --mode query
CliQuery(query, fold, file, top_n) ==
    IF query = NoName THEN
        Result("none", <<>>, file, <<>>, <<>>,
               <<Msg("Error: --query_song is required in query mode.")>>)
    ELSE
        LET r == FindSimilarSongs(fold, file, query, top_n)
        IN  IF r.raised # "none" THEN r
            ELSE [r EXCEPT !.output = r.output
                    \o <<Msg("Top similar songs:")>>
                    \o [i \in 1..Len(r.returned) |->
                          Line("Similarity", r.returned[i][1],
                               Hundredths(r.returned[i][2]))]]

\* os.path.exists(os.path.join(folder, name))
PathExists(fold, name) ==
    fold.exists /\ name \in DOMAIN fold.files /\ fold.files[name] # Absent

\* the names os.listdir(folder) gives, in any order
Listing(fold) == Perms({n \in DOMAIN fold.files : fold.files[n] # Absent})

\* main() of app.py, "Build Database"; an empty text input is no folder
AppBuild(given, fold, order, file) ==
    IF given /\ fold.exists THEN
        LET r == BuildSongDatabase(fold, order, file)
        IN  IF r.raised # "none" THEN r
            ELSE [r EXCEPT !.output = r.output
                    \o <<Msg("st.success: Database built successfully!")>>]
    ELSE
        Result("none", <<>>, file, <<>>, <<>>,
               <<Msg("st.error: Invalid folder path. Please check and try again.")>>)

\* main() of app.py, "Query Similar Songs"
AppQuery(query, fold, file, top_n) ==
    IF query # NoName /\ PathExists(fold, query) THEN
        IF file.exists THEN
            LET r == FindSimilarSongs(fold, file, query, top_n)
            IN  IF r.raised # "none" THEN r
                ELSE IF r.returned # <<>> THEN
                    [r EXCEPT !.output = r.output
                        \o <<Msg("Top similar songs:")>>
                        \o [i \in 1..Len(r.returned) |->
                              Line("Similarity", r.returned[i][1],
                                   Hundredths(r.returned[i][2]))]]
                ELSE
                    [r EXCEPT !.output = r.output \o
                        <<Msg("st.error: No similar songs found. Ensure the database is properly built.")>>]
        ELSE
            Result("none", <<>>, file, <<>>, <<>>,
                <<Msg("st.error: Song database not found. Please build the database first.")>>)
    ELSE
        Result("none", <<>>, file, <<>>, <<>>,
            <<Msg("st.error: Invalid query song path. Please check and try again.")>>)

\* every database a build can leave over the names S and the tracks 1..T, in every order
AllDatabases(S, T) ==
    UNION {UNION {{[i \in 1..Len(p) |-> <<p[i], TrackFeatures(tr[i])>>] :
                      tr \in [1..Len(p) -> 1..T]} :
                  p \in Perms(sub)} :
           sub \in SUBSET S}

---------------------------------------------------------------------------
(* State machine: one user, one operation at a time *)

NoFolder == [exists |-> FALSE, files |-> [n \in FileNames |-> Absent]]
EmptyFolder == [exists |-> TRUE, files |-> [n \in FileNames |-> Absent]]

NoResult == Result("none", <<>>, NoFile, <<>>, <<>>, <<>>)

Op(op, fe, given, query, top_n, prior, res) ==
    [op |-> op, fe |-> fe, given |-> given, query |-> query, top_n |-> top_n,
     prior |-> prior, res |-> res]

NoOp == Op("none", "none", FALSE, NoName, 0, NoFile, NoResult)

\* a build and a query that run at the same time: where each is (bpc, qpc),
\* the build's in-memory database (mem), and, to state what a query read:
\* whether a build has completed (built) and the database of the last one
\* (done); of the last query, whether it ran while a build ran (overlap),
\* the file content it loaded (read), built and done as they were then
\* (readBuilt, readDone) and its result (res); and whether some query read
\* a stale or a part-written file
ConcIdle ==
    [bpc |-> "idle", mem |-> <<>>, qpc |-> "idle", built |-> FALSE,
     done |-> <<>>, overlap |-> FALSE, read |-> NoFile, readBuilt |-> FALSE,
     readDone |-> <<>>, res |-> NoResult,
     sawStale |-> FALSE, sawPartial |-> FALSE]

Init ==
    /\ folder = NoFolder
    /\ dbFile = NoFile
    /\ last = NoOp
    /\ conc = ConcIdle

\* the user creates or deletes the song folder, or puts, replaces or deletes
\* a file in it
MakeFolder ==
    /\ ~folder.exists
    /\ folder' = EmptyFolder
    /\ last' = NoOp
    /\ UNCHANGED <<dbFile, conc>>

RemoveFolder ==
    /\ folder.exists
    /\ folder' = NoFolder
    /\ last' = NoOp
    /\ UNCHANGED <<dbFile, conc>>

PutFile ==
    /\ folder.exists
    /\ \E n \in Names, c \in Contents :
          folder' = [folder EXCEPT !.files[n] = c]
    /\ last' = NoOp
    /\ UNCHANGED <<dbFile, conc>>

RemoveFile ==
    /\ folder.exists
    /\ \E n \in Names :
          /\ folder.files[n] # Absent
          /\ folder' = [folder EXCEPT !.files[n] = Absent]
    /\ last' = NoOp
    /\ UNCHANGED <<dbFile, conc>>

\* the file at the database path is deleted, or left without content (a
\* writer that was killed after open(path, 'wb'))
RemoveDb ==
    /\ dbFile.exists
    /\ dbFile' = NoFile
    /\ last' = NoOp
    /\ UNCHANGED <<folder, conc>>

DamageDb ==
    /\ Loadable(dbFile)
    /\ dbFile' = TruncatedFile
    /\ last' = NoOp
    /\ UNCHANGED <<folder, conc>>

RunCliBuild ==
    \E given \in BOOLEAN, order \in Listing(folder) :
        LET r == CliBuild(given, folder, order, dbFile)
        IN  /\ last' = Op("build", "cli", given, NoName, 0, dbFile, r)
            /\ dbFile' = r.file
            /\ UNCHANGED <<folder, conc>>

RunAppBuild ==
    \E given \in BOOLEAN, order \in Listing(folder) :
        LET r == AppBuild(given, folder, order, dbFile)
        IN  /\ last' = Op("build", "app", given, NoName, 0, dbFile, r)
            /\ dbFile' = r.file
            /\ UNCHANGED <<folder, conc>>

RunCliQuery ==
    \E query \in Names \cup {NoName}, top_n \in 1..MaxTopN :
        LET r == CliQuery(query, folder, dbFile, top_n)
        IN  /\ last' = Op("query", "cli", query # NoName, query, top_n, dbFile, r)
            /\ dbFile' = r.file
            /\ UNCHANGED <<folder, conc>>

RunAppQuery ==
    \E query \in Names \cup {NoName}, top_n \in 1..MaxTopN :
        LET r == AppQuery(query, folder, dbFile, top_n)
        IN  /\ last' = Op("query", "app", query # NoName, query, top_n, dbFile, r)
            /\ dbFile' = r.file
            /\ UNCHANGED <<folder, conc>>

Next ==
    \/ MakeFolder
    \/ RemoveFolder
    \/ PutFile
    \/ RemoveFile
    \/ RemoveDb
    \/ DamageDb
    \/ RunCliBuild
    \/ RunAppBuild
    \/ RunCliQuery
    \/ RunAppQuery

Spec == Init /\ [][Next]_vars

\* the build side alone: the folder and the database file change, no query
BuildNext ==
    \/ MakeFolder
    \/ RemoveFolder
    \/ PutFile
    \/ RemoveFile
    \/ RemoveDb
    \/ DamageDb
    \/ RunCliBuild
    \/ RunAppBuild

SpecBuild == Init /\ [][BuildNext]_vars

\* The query side alone, from any file at the database path.  A query reads
\* one file of the folder, the query song: the folder is missing, empty, or
\* holds one file.
QueryFolders ==
    {NoFolder, EmptyFolder} \cup
    {[EmptyFolder EXCEPT !.files[n] = c] : n \in Names, c \in Contents}

AudioNames == {n \in Names : n[2] \in {".mp3", ".wav"}}

QueryInit ==
    /\ folder \in QueryFolders
    /\ \/ dbFile \in {NoFile, TruncatedFile}
       \/ \E db \in AllDatabases(AudioNames, NumTracks) : dbFile = FullFile(db)
    /\ last = NoOp
    /\ conc = ConcIdle

QueryNext ==
    \/ RunCliQuery
    \/ RunAppQuery

SpecQuery == QueryInit /\ [][QueryNext]_vars

---------------------------------------------------------------------------
(* The ranking on its own: any built database, any query song, any top_n *)

RankInit ==
    /\ \E c \in 0..RankTracks :
          folder = [EmptyFolder EXCEPT !.files[QueryName] = c]
    /\ \E db \in AllDatabases(RankNames, RankTracks) : dbFile = FullFile(db)
    /\ last = NoOp
    /\ conc = ConcIdle

CallFindSimilarSongs ==
    \E top_n \in (0 - 1)..(Cardinality(RankNames) + 1) :
        LET r == FindSimilarSongs(folder, dbFile, QueryName, top_n)
        IN  /\ last' = Op("query", "core", TRUE, QueryName, top_n, dbFile, r)
            /\ dbFile' = r.file
            /\ UNCHANGED <<folder, conc>>

RankNext == CallFindSimilarSongs

SpecRank == RankInit /\ [][RankNext]_vars

---------------------------------------------------------------------------
(* A build and a query at the same time on one database path.  Each call   *)
(* is cut where it touches the file: the build lists and extracts, opens   *)
(* the file for writing, writes, closes; the query opens the file, then    *)
(* loads it and ranks.                                                     *)

ConcNames == {<<"a", ".wav">>}

ConcInit ==
    /\ folder = EmptyFolder
    /\ dbFile = NoFile
    /\ last = NoOp
    /\ conc = ConcIdle

ConcPutFile ==
    /\ \E n \in ConcNames, c \in Contents :
          folder' = [folder EXCEPT !.files[n] = c]
    /\ UNCHANGED <<dbFile, last, conc>>

ConcRemoveFile ==
    /\ \E n \in ConcNames :
          /\ folder.files[n] # Absent
          /\ folder' = [folder EXCEPT !.files[n] = Absent]
    /\ UNCHANGED <<dbFile, last, conc>>

\* build_song_database, lines 44-52: the loop fills the in-memory database
BuildExtract ==
    /\ conc.bpc = "idle"
    /\ \E order \in Listing(folder) :
          conc' = [conc EXCEPT
                     !.bpc = "extracted",
                     !.mem = BuildLoop(folder, order, 1, BuildStart).db,
                     !.overlap = IF conc.qpc = "opened" THEN TRUE ELSE @]
    /\ UNCHANGED <<folder, dbFile, last>>

\* line 53: open(database_path, 'wb') leaves the file without content
BuildOpen ==
    /\ conc.bpc = "extracted"
    /\ dbFile' = TruncatedFile
    /\ conc' = [conc EXCEPT !.bpc = "opened"]
    /\ UNCHANGED <<folder, last>>

\* line 54: pickle.dump; part of the pickle reaches the file before the rest
BuildWritePart ==
    /\ conc.bpc = "opened"
    /\ \E k \in 1..Len(conc.mem) :
          /\ k > dbFile.written
          /\ dbFile' = [exists |-> TRUE, db |-> conc.mem, written |-> k]
    /\ UNCHANGED <<folder, last, conc>>

\* lines 54-56: the dump is complete, the file is closed, success is printed
BuildClose ==
    /\ conc.bpc = "opened"
    /\ dbFile' = FullFile(conc.mem)
    /\ conc' = [conc EXCEPT !.bpc = "idle", !.built = TRUE, !.done = conc.mem]
    /\ UNCHANGED <<folder, last>>

\* find_similar_songs, line 61: open(database_path, 'rb'); a missing file
\* raises and ends the query
QueryOpen ==
    /\ conc.qpc # "opened"
    /\ IF dbFile.exists
       THEN conc' = [conc EXCEPT !.qpc = "opened",
                                 !.overlap = (conc.bpc # "idle")]
       ELSE conc' = [conc EXCEPT
                       !.qpc = "ended",
                       !.overlap = (conc.bpc # "idle"),
                       !.read = dbFile,
                       !.readBuilt = conc.built,
                       !.readDone = conc.done,
                       !.res = FindSimilarSongs(folder, dbFile, NoName, MaxTopN)]
    /\ UNCHANGED <<folder, dbFile, last>>

\* lines 62-93: pickle.load reads what the file holds now, then the query
\* song is extracted and the entries are ranked
QueryLoad ==
    /\ conc.qpc = "opened"
    /\ \E query \in ConcNames :
          conc' = [conc EXCEPT
                     !.qpc = "ended",
                     !.read = dbFile,
                     !.readBuilt = conc.built,
                     !.readDone = conc.done,
                     !.res = FindSimilarSongs(folder, dbFile, query, MaxTopN),
                     !.sawStale = @ \/ (/\ conc.bpc = "extracted"
                                        /\ Loadable(dbFile)
                                        /\ AsMapping(dbFile.db) # AsMapping(conc.mem)),
                     !.sawPartial = @ \/ (conc.bpc = "opened" /\ ~Loadable(dbFile))]
    /\ UNCHANGED <<folder, dbFile, last>>

ConcNext ==
    \/ ConcPutFile
    \/ ConcRemoveFile
    \/ BuildExtract
    \/ BuildOpen
    \/ BuildWritePart
    \/ BuildClose
    \/ QueryOpen
    \/ QueryLoad

SpecConc == ConcInit /\ [][ConcNext]_vars

---------------------------------------------------------------------------
(* Properties *)

IsAudioName(n) == n[2] = ".mp3" \/ n[2] = ".wav"
Present(n) == folder.exists /\ folder.files[n] # Absent
Decodable(n) == Present(n) /\ folder.files[n] >= 1
Kinds(output) == {output[i].kind : i \in 1..Len(output)}
PositionIn(db, n) == CHOOSE i \in 1..Len(db) : db[i][1] = n

\* the score the query song of the last operation has with entry i of db
EntryScore(db, i) ==
    CosineSimilarity(FeatureVector(TrackFeatures(folder.files[last.query])),
                     FeatureVector(db[i][2]))

\* C1: a query whose extraction succeeds, with top_n >= 1, returns
\* min(top_n, database size) pairs, scores non-increasing, each identifier a
\* database identifier and none twice.
C1_RankedTopN ==
    (/\ last.op = "query"
     /\ last.res.raised = "none"
     /\ Decodable(last.query)
     /\ last.top_n >= 1)
    => LET r == last.res.returned
           db == last.prior.db
       IN  /\ Len(r) = Min(last.top_n, Len(db))
           /\ (last.top_n <= Len(db) => Len(r) = last.top_n)
           /\ (last.top_n > Len(db) => Len(r) = Len(db))
           /\ \A i \in 1..Len(r) : \A j \in 1..Len(r) :
                  i < j => r[j][2][1] * r[i][2][2] <= r[i][2][1] * r[j][2][2]
           /\ \A i \in 1..Len(r) : r[i][1] \in Keys(db)
           /\ \A i \in 1..Len(r) : \A j \in 1..Len(r) :
                  r[i][1] = r[j][1] => i = j

\* a database of three, top_n = 2: two results, the first scoring higher
C1_Witness ==
    /\ last.op = "query"
    /\ last.res.raised = "none"
    /\ Decodable(last.query)
    /\ Len(last.prior.db) = 3
    /\ last.top_n = 2
    /\ Len(last.res.returned) = 2
    /\ last.res.returned[1][2] # last.res.returned[2][2]

\* C9: entries of equal score come out in the database's iteration order,
\* and of equal-score entries cut by top_n the earlier-iterated one is kept.
C9_StableTies ==
    (/\ last.op = "query"
     /\ last.res.raised = "none"
     /\ Decodable(last.query)
     /\ last.top_n >= 1)
    => LET r == last.res.returned
           db == last.prior.db
       IN  /\ \A i \in 1..Len(r) : \A j \in 1..Len(r) :
                  (i < j /\ r[i][2] = r[j][2])
                  => PositionIn(db, r[i][1]) < PositionIn(db, r[j][1])
           /\ \A i \in 1..Len(r) : \A k \in 1..Len(db) :
                  (db[k][1] \notin {r[j][1] : j \in 1..Len(r)}
                   /\ EntryScore(db, k) = r[i][2])
                  => PositionIn(db, r[i][1]) < k

\* two entries tie, top_n cuts between them, the earlier one is returned
C9_Witness ==
    /\ last.op = "query"
    /\ last.res.raised = "none"
    /\ Decodable(last.query)
    /\ Len(last.prior.db) = 3
    /\ last.top_n = 2
    /\ Len(last.res.returned) = 2
    /\ last.res.returned[1][2] # last.res.returned[2][2]
    /\ \E k \in 1..3 :
          /\ last.prior.db[k][1] \notin
                {last.res.returned[j][1] : j \in 1..2}
          /\ EntryScore(last.prior.db, k) = last.res.returned[2][2]

\* a build whose folder argument is given and whose folder exists
BuildRan == last.op = "build" /\ last.given /\ folder.exists

\* the audio files of the folder that decode
GoodSongs == {n \in FileNames : IsAudioName(n) /\ Decodable(n)}

\* C2: after a build of an existing folder the persisted keys are exactly
\* the file names with an audio extension whose extraction succeeded; no
\* other file reaches the extractor, a failed extraction does not abort the
\* build and leaves no entry.
C2_BuildKeys ==
    BuildRan
    => /\ last.res.raised = "none"
       /\ "Database built successfully" \in Kinds(last.res.output)
       /\ Loadable(dbFile)
       /\ Keys(dbFile.db) = GoodSongs
       /\ Len(dbFile.db) = Cardinality(GoodSongs)
       /\ Range(last.res.extractCalls)
             = {n \in FileNames : IsAudioName(n) /\ Present(n)}
       /\ \A i \in 1..Len(dbFile.db) : dbFile.db[i][2].ok

\* one corrupt song, one good song and a decodable file that is no audio
\* file by its name: one entry
C2_Witness ==
    /\ BuildRan
    /\ \E n \in Names : IsAudioName(n) /\ Present(n) /\ ~Decodable(n)
    /\ \E n \in Names : ~IsAudioName(n) /\ Decodable(n)
    /\ Cardinality(GoodSongs) = 1
    /\ Len(dbFile.db) = 1

\* C3: the file a completed build leaves is the mapping of the folder's
\* good songs to their features and nothing else, whatever the file at the
\* path held before; with no good song it is a valid empty database.
C3_BuildReplaces ==
    BuildRan
    => /\ Loadable(dbFile)
       /\ AsMapping(dbFile.db)
             = [n \in GoodSongs |-> TrackFeatures(folder.files[n])]
       /\ Len(dbFile.db) = Cardinality(GoodSongs)
       /\ (GoodSongs = {} => dbFile = FullFile(<<>>))

\* the file held an entry of an earlier build whose song the folder has no
\* more: the entry is gone
C3_Witness ==
    /\ BuildRan
    /\ Loadable(last.prior)
    /\ Loadable(dbFile)
    /\ \E n \in Keys(last.prior.db) : ~Present(n) /\ n \notin Keys(dbFile.db)
    /\ dbFile.db # <<>>

FolderErrors ==
    {"Error: --song_folder is required in build mode.",
     "st.error: Invalid folder path. Please check and try again."}

\* C6: a build whose folder does not exist ends in a configuration error:
\* no extractor call, no report of success, the file at the output path as
\* it was.
C6_MissingFolder ==
    (last.op = "build" /\ ~folder.exists)
    => /\ \/ last.res.raised = "FileNotFoundError"
          \/ Kinds(last.res.output) \cap FolderErrors # {}
       /\ last.res.extractCalls = <<>>
       /\ Kinds(last.res.output) \cap
             {"Database built successfully",
              "st.success: Database built successfully!",
              "Processing", "Error extracting features"} = {}
       /\ dbFile = last.prior
       /\ last.res.file = last.prior

\* the command line is given a folder that is gone, a database was built
\* before: the build raises and the database is as it was
C6_Witness ==
    /\ last.op = "build"
    /\ last.fe = "cli"
    /\ last.given
    /\ ~folder.exists
    /\ last.res.raised = "FileNotFoundError"
    /\ Loadable(dbFile)
    /\ dbFile.db # <<>>

\* a query that got past the front end's checks of the query path: the
\* command line checks that it is given, the form that it exists
QueryAccepted ==
    /\ last.op = "query"
    /\ last.given
    /\ (last.fe = "app" => Present(last.query))

ResultKinds ==
    {"Top similar songs:", "Similarity",
     "st.error: No similar songs found. Ensure the database is properly built."}

\* C4: a query against a database file that is missing or does not load
\* reports a database error: it raises, or the form says the database was
\* not found; it shows no result listing and no "no matches", and the query
\* song is not extracted.
C4_MissingDatabase ==
    (last.op = "query" /\ ~Loadable(dbFile))
    => /\ Kinds(last.res.output) \cap ResultKinds = {}
       /\ last.res.extractCalls = <<>>
       /\ last.res.compared = <<>>
       /\ QueryAccepted
          => \/ last.res.raised \in {"FileNotFoundError", "UnpicklingError"}
             \/ /\ last.fe = "app"
                /\ last.res.output = <<Msg("st.error: Song database not found. Please build the database first.")>>

\* the query song does not decode and there is no database file: the
\* command line's query raises FileNotFoundError
C4_Witness ==
    /\ QueryAccepted
    /\ last.fe = "cli"
    /\ ~dbFile.exists
    /\ Present(last.query)
    /\ ~Decodable(last.query)
    /\ last.res.raised = "FileNotFoundError"

\* what the caller of find_similar_songs has in hand afterwards
Outcome(res) == <<res.raised, res.returned>>

\* a query that finds no matches: a decodable song against an empty database
NoMatches ==
    FindSimilarSongs([EmptyFolder EXCEPT !.files[QueryName] = 1],
                     FullFile(<<>>), QueryName, 1)

\* C5: when the query song's extraction fails (the database loads), nothing
\* is compared, the empty list is returned, and what the caller gets differs
\* from what it gets of a query that finds no matches.
C5_ExtractionFailureDistinct ==
    (QueryAccepted /\ Loadable(dbFile) /\ ~Decodable(last.query))
    => /\ last.res.compared = <<>>
       /\ last.res.returned = <<>>
       /\ Outcome(last.res) # Outcome(NoMatches)

\* C7: a query that returns prints one "<identifier>: Similarity = <score>"
\* line per match, in rank order, and an explicit "no matches" message when
\* the list is empty, in both front ends.
C7_QueryOutput ==
    (QueryAccepted /\ Loadable(dbFile) /\ last.res.raised = "none")
    => LET r == last.res.returned
           out == last.res.output
           lines == {i \in 1..Len(out) : out[i].kind = "Similarity"}
       IN  /\ Cardinality(lines) = Len(r)
           /\ \A i \in lines : \A j \in lines :
                 (i < j) => \E a \in 1..Len(r) : \E b \in 1..Len(r) :
                     /\ a < b
                     /\ out[i].song = r[a][1]
                     /\ out[j].song = r[b][1]
           /\ \A a \in 1..Len(r) : \E i \in lines :
                 out[i] = Line("Similarity", r[a][1], Hundredths(r[a][2]))
           /\ r = <<>> =>
                 "st.error: No similar songs found. Ensure the database is properly built."
                     \in Kinds(out)

\* a configuration error: the folder or the query path is not given or does
\* not exist
ConfigError ==
    \/ last.op = "build" /\ (~last.given \/ ~folder.exists)
    \/ last.op = "query" /\ (~last.given \/ ~Present(last.query))

\* C8: on a configuration error, in both front ends, the error is reported,
\* extract_features is not called and the database file is not written.
C8_ConfigErrorsFirst ==
    ConfigError
    => /\ last.res.extractCalls = <<>>
       /\ dbFile = last.prior
       /\ \/ last.res.raised # "none"
          \/ \E k \in Kinds(last.res.output) :
                k \in FolderErrors \cup
                   {"Error: --query_song is required in query mode.",
                    "st.error: Invalid query song path. Please check and try again."}

\* C10: nothing locks the database file.  A query that does not overlap a
\* build loads the complete database of the build that completed last (no
\* file when none has); a query that overlaps one can load the database of
\* the build before it, or a part-written file.
C10_NoLock ==
    (conc.qpc = "ended" /\ ~conc.overlap)
    => /\ ~conc.readBuilt
          => (~conc.read.exists /\ conc.res.raised = "FileNotFoundError")
       /\ conc.readBuilt
          => /\ Loadable(conc.read)
             /\ conc.read.db = conc.readDone
             /\ conc.res.raised = "none"

\* one query loaded the database of the build before the running one, one
\* loaded a part-written file, and the last query, alone, loaded the
\* complete database of the last build, which holds a song
C10_Witness ==
    /\ conc.sawStale
    /\ conc.sawPartial
    /\ conc.qpc = "ended"
    /\ ~conc.overlap
    /\ conc.readBuilt
    /\ conc.read.db # <<>>
    /\ conc.read.db = conc.done

==========================================================================
